---- MODULE Spec2Model ----
(***************************************************************************)
(* send_whatsapp.py: one scheduled run sends a WhatsApp poll or a reminder *)
(* to a group through the WHAPI gateway.  The model follows one run from   *)
(* module load to process exit, request by request, and carries the        *)
(* persisted poll id (CI variable, local .env file) from run to run.       *)
(*                                                                         *)
(* Strings are modelled by what the code asks of them.  A message id is a  *)
(* sequence of hyphen-separated segments, each segment a record            *)
(* [n |-> its length, ok |-> all its characters are in [A-Za-z0-9._]];     *)
(* the empty sequence stands for Python's None and one empty segment for   *)
(* the empty string.  JSON values are tagged records.  Message texts are   *)
(* sequences of tokens.                                                    *)
(***************************************************************************)
EXTENDS Integers, Sequences, FiniteSets, TLC

\* ---------------------------------------------------------------------
\* Program constants
\* ---------------------------------------------------------------------
MAX_RETRIES == 3
INITIAL_BACKOFF == 2
MINYAN_THRESHOLD == 10
NOT_FOUND_CODE == 404
FORBIDDEN_CODE == 403

\* ---------------------------------------------------------------------
\* Bounds of the model
\* ---------------------------------------------------------------------
\* longest local .env file of an initial state, in lines
MaxEnvLines == 1
\* vote counts of a gateway answer: MINYAN_THRESHOLD - MaxBelow .. MINYAN_THRESHOLD + MaxAbove
MaxBelow == 2
MaxAbove == 1
\* lines of a .env file, and operations on it, where the two file operations
\* are called on their own
MaxFileLines == 3
MaxOps == 3
\* calls of get_room_for_today where it is called on its own
MaxDays == 3

\* ---------------------------------------------------------------------
\* Message ids
\* ---------------------------------------------------------------------
Seg(n, ok) == [n |-> n, ok |-> ok]
NoneId == <<>>
EmptyStr == <<Seg(0, TRUE)>>
\* "PsrIDamMcQrSYK8-wlMBq53kUCFYFA"
IdA == <<Seg(15, TRUE), Seg(14, TRUE)>>
\* three segments, the last of two characters
IdB == <<Seg(8, TRUE), Seg(8, TRUE), Seg(2, TRUE)>>
\* "not an id"
IdBad == <<Seg(9, FALSE)>>
\* "MSGID-GH-1"
IdShort == <<Seg(5, TRUE), Seg(2, TRUE), Seg(1, TRUE)>>

\* bool(s) of an optional string
StrTruthy(s) == s # NoneId /\ s # EmptyStr

SegIn(s, lo, hi) == s.ok /\ s.n >= lo /\ s.n <= hi

MSG_ID_PATTERN(id) ==
    /\ Len(id) \in 2..4
    /\ SegIn(id[1], 4, 30)
    /\ SegIn(id[2], 4, 14)
    /\ Len(id) = 3 => (SegIn(id[3], 4, 10) \/ SegIn(id[3], 2, 10))
    /\ Len(id) = 4 => (SegIn(id[3], 4, 10) /\ SegIn(id[4], 2, 10))

is_valid_msg_id(msg_id) == MSG_ID_PATTERN(msg_id)

\* ---------------------------------------------------------------------
\* JSON values
\* ---------------------------------------------------------------------
JNull == [t |-> "null"]
JStr(s) == [t |-> "str", s |-> s]
JInt(i) == [t |-> "int", i |-> i]
JList(l) == [t |-> "list", l |-> l]
JDict(d) == [t |-> "dict", d |-> d]
\* a body that is no JSON: response.json() raises
JInvalid == [t |-> "invalid"]
EmptyDict == JDict([k \in {} |-> JNull])

IsDict(v) == v.t = "dict"
IsList(v) == v.t = "list"

\* dict.get(key)
Get(v, key) == IF key \in DOMAIN v.d THEN v.d[key] ELSE JNull

\* bool(v)
Truthy(v) ==
    CASE v.t = "null" -> FALSE
      [] v.t = "str" -> v.s # EmptyStr
      [] v.t = "int" -> v.i # 0
      [] v.t = "list" -> v.l # <<>>
      [] v.t = "dict" -> DOMAIN v.d # {}
      [] OTHER -> FALSE

\* a or b
Or(a, b) == IF Truthy(a) THEN a ELSE b

RECURSIVE Digits(_)
Digits(n) == IF n < 10 THEN 1 ELSE 1 + Digits(n \div 10)

\* str(v) of a string or an integer, as a message id
Str(v) ==
    CASE v.t = "str" -> v.s
      [] v.t = "int" -> IF v.i < 0 THEN <<Seg(0, TRUE), Seg(Digits(-v.i), TRUE)>>
                                   ELSE <<Seg(Digits(v.i), TRUE)>>
      [] OTHER -> <<Seg(2, FALSE)>>

\* text of an error message, as a sequence of words
JText(x) == [t |-> "text", x |-> x]

\* "specified message not found" in message
MentionsNotFound(v) ==
    /\ v.t = "text"
    /\ \E i \in 1..Len(v.x) :
          /\ i + 3 <= Len(v.x)
          /\ SubSeq(v.x, i, i + 3) = <<"specified", "message", "not", "found">>

\* ---------------------------------------------------------------------
\* Room selection
\* ---------------------------------------------------------------------
Weekdays == 0..6
ROOM_TUESDAY == "03.501"
ROOM_NORTH_SHELTER == "06.709 (north shelter)"

\* room = "03.501" if weekday in {} else '06.709 ...'
GetRoomThursdayMoved(weekday) ==
    IF weekday \in {3} THEN ROOM_TUESDAY ELSE ROOM_NORTH_SHELTER

get_room_for_today(weekday) ==
    IF weekday \in {} THEN ROOM_TUESDAY ELSE ROOM_NORTH_SHELTER

\* ---------------------------------------------------------------------
\* Holiday asset: assets/holidays_<year>.json
\* ---------------------------------------------------------------------
\* an optional holiday name: <<>> is None, <<name>> a stored name
NoName == <<>>
HolidayAbsent == [state |-> "absent", map |-> [d \in {} |-> ""]]
HolidayMalformed == [state |-> "malformed", map |-> [d \in {} |-> ""]]
HolidayMap(m) == [state |-> "ok", map |-> m]

HolidayFiles ==
    { HolidayAbsent,
      HolidayMalformed,
      HolidayMap([d \in {"tomorrow"} |-> "Pesach"]),
      HolidayMap([d \in {"today"} |-> "Purim"]),
      HolidayMap([d \in {"today", "tomorrow"} |-> ""]) }

\* the value is_today_holiday returns; json.load raises on a malformed file
is_today_holiday(file) ==
    IF file.state = "absent" THEN NoName
    ELSE IF "today" \in DOMAIN file.map THEN <<file.map["today"]>> ELSE NoName

\* bool(holiday_name)
NameTruthy(name) == name # NoName /\ name # <<"">>

\* ---------------------------------------------------------------------
\* Local .env file
\* ---------------------------------------------------------------------
KEY == "LAST_POLL_MESSAGE_ID"
KeyLine(id) == [key |-> KEY, val |-> id]
OtherLine == [key |-> "WHAPI_TOKEN", val |-> <<Seg(20, TRUE)>>]
OtherLine2 == [key |-> "WHATSAPP_GROUP_ID", val |-> <<Seg(18, TRUE)>>]
NoFile == [exists |-> FALSE, lines |-> <<>>]
File(lines) == [exists |-> TRUE, lines |-> lines]

\* line.strip().startswith("LAST_POLL_MESSAGE_ID=")
IsKeyLine(line) == line.key = KEY

KeyPositions(lines) == {i \in 1..Len(lines) : IsKeyLine(lines[i])}

Min(S) == CHOOSE x \in S : \A y \in S : x <= y
Max(S) == CHOOSE x \in S : \A y \in S : x >= y

\* load_dotenv: the value the file binds to the key, the last binding winning
DotenvValue(file) ==
    IF file.exists /\ KeyPositions(file.lines) # {}
    THEN file.lines[Max(KeyPositions(file.lines))].val
    ELSE NoneId

\* the file write_last_poll_id leaves: the first key line replaced, or one appended
WriteDotenvMissesKey(file, msg_id) ==
    IF file.exists THEN File(Append(file.lines, KeyLine(msg_id)))
    ELSE File(<<KeyLine(msg_id)>>)

WriteDotenv(file, msg_id) ==
    IF file.exists
    THEN IF KeyPositions(file.lines) # {}
         THEN File([file.lines EXCEPT ![Min(KeyPositions(file.lines))] = KeyLine(msg_id)])
         ELSE File(Append(file.lines, KeyLine(msg_id)))
    ELSE File(<<KeyLine(msg_id)>>)

\* the file _clear_local_last_poll_id leaves
ClearDotenv(file) ==
    IF file.exists
    THEN File(SelectSeq(file.lines, LAMBDA line : ~IsKeyLine(line)))
    ELSE file

\* ---------------------------------------------------------------------
\* Gateway responses
\* ---------------------------------------------------------------------
\* a response: ok is response.ok, body the JSON (or JInvalid) response.json() reads
Response(ok, status, body) == [ok |-> ok, status |-> status, body |-> body]
\* no response: the request raised, or none was made
NoResponse == [ok |-> FALSE, status |-> 0, body |-> JNull]

\* ---------------------------------------------------------------------
\* Vote count of the first poll option
\* ---------------------------------------------------------------------
JRaise == [t |-> "raise"]

\* the first r of [r for r in l if isinstance(r, dict)], JNull when that list is empty
FirstDict(l) ==
    LET dicts == SelectSeq(l, IsDict)
    IN IF dicts = <<>> THEN JNull ELSE dicts[1]

\* votes[0]: r.get("count") or 0 of the first dict of results
ResultVotes(l) ==
    IF FirstDict(l) = JNull THEN JNull ELSE Or(Get(FirstDict(l), "count"), JInt(0))

\* votes[0]: o.get("votes") or o.get("count") or 0 of the first dict of options
OptionVotes(l) ==
    IF FirstDict(l) = JNull THEN JNull
    ELSE Or(Or(Get(FirstDict(l), "votes"), Get(FirstDict(l), "count")), JInt(0))

CountOfSection(poll_section) ==
    LET results == Or(Get(poll_section, "results"), JNull)
        opts == Or(Get(poll_section, "options"), JNull)
    IN IF IsList(results) THEN ResultVotes(results.l)
       ELSE IF IsList(opts) THEN OptionVotes(opts.l)
       \* for o in 5: a truthy integer is not iterable
       ELSE IF opts.t = "int" THEN JRaise
       \* None, or a dict or a string, whose elements are no dicts
       ELSE JNull

extract_positive_count_from_msg(msg0) ==
    LET msg == IF IsDict(msg0) /\ "message" \in DOMAIN msg0.d /\ IsDict(msg0.d["message"])
               THEN msg0.d["message"] ELSE msg0
    IN IF ~IsDict(msg) THEN JNull
       ELSE LET poll_section == Or(Or(Get(msg, "poll"), Get(msg, "interactive")), msg)
            IN IF ~IsDict(poll_section) THEN JNull
               ELSE CountOfSection(poll_section)

\* every path of a non-ok response, and every exception, leaves result = None
parse_positive_count_from_response(resp) ==
    IF ~resp.ok THEN JNull
    ELSE IF resp.body = JInvalid THEN JNull
    ELSE LET parsed == extract_positive_count_from_msg(resp.body)
         IN IF parsed = JRaise THEN JNull ELSE parsed

\* the branch of the non-ok path that logs "Poll message not found (404)"
IsNotFoundResponse(resp) ==
    /\ ~resp.ok
    /\ IsDict(resp.body)
    /\ IsDict(Get(resp.body, "error"))
    /\ Get(Get(resp.body, "error"), "code") = JInt(NOT_FOUND_CODE)
    /\ MentionsNotFound(Get(Get(resp.body, "error"), "message"))

\* _fetch_positive_count, given what _get_message_with_retries returned
fetch_positive_count(get_resp) ==
    IF get_resp = NoResponse THEN JNull
    ELSE parse_positive_count_from_response(get_resp)

\* ---------------------------------------------------------------------
\* Reminder body
\* ---------------------------------------------------------------------
default_body(room) == <<"REMINDER", room, "AUTOMATIC">>
minyan_body(room) == <<"YESH_MINYAN", room, "AUTOMATIC">>
Raised == <<"TypeError">>

\* the body, or Raised where positive_count >= MINYAN_THRESHOLD is no comparison
\* Python allows (a string, a list or a dict against an integer)
BuildBodyStrictQuorum(positive_count, room, default) ==
    IF positive_count = JNull THEN default
    ELSE IF positive_count.t # "int" THEN Raised
    ELSE IF positive_count.i > MINYAN_THRESHOLD THEN minyan_body(room)
    ELSE <<"HASER", ToString(MINYAN_THRESHOLD - positive_count.i), "-">> \o default

build_reminder_body(positive_count, room, default) ==
    IF positive_count = JNull THEN default
    ELSE IF positive_count.t # "int" THEN Raised
    ELSE IF positive_count.i >= MINYAN_THRESHOLD THEN minyan_body(room)
    ELSE <<"HASER", ToString(MINYAN_THRESHOLD - positive_count.i), "-">> \o default

\* ---------------------------------------------------------------------
\* Message id of a poll response
\* ---------------------------------------------------------------------
\* msg_id of send_poll: JNull where none is found
PollMsgIdTopLevelFirst(rjson) ==
    IF ~IsDict(rjson) THEN JNull
    ELSE LET ms == Get(rjson, "message")
             inner == IF IsDict(ms) THEN Get(ms, "id") ELSE JNull
             outer == Or(Or(Get(rjson, "id"), Get(rjson, "messageId")), Get(rjson, "message_id"))
         IN IF Truthy(outer) THEN outer ELSE inner

\* a response without any id field, read for its "sent" field
PollMsgIdOrSent(rjson) ==
    IF ~IsDict(rjson) THEN JNull
    ELSE LET ms == Get(rjson, "message")
             inner == IF IsDict(ms) THEN Get(ms, "id") ELSE JNull
             outer == Or(Or(Get(rjson, "id"), Get(rjson, "messageId")), Get(rjson, "message_id"))
         IN IF Truthy(inner) THEN inner
            ELSE IF Truthy(outer) THEN outer ELSE Get(rjson, "sent")

PollMsgId(rjson) ==
    IF ~IsDict(rjson) THEN JNull
    ELSE LET ms == Get(rjson, "message")
             inner == IF IsDict(ms) THEN Get(ms, "id") ELSE JNull
         IN IF Truthy(inner) THEN inner
            ELSE Or(Or(Get(rjson, "id"), Get(rjson, "messageId")), Get(rjson, "message_id"))

\* ---------------------------------------------------------------------
\* State
\* ---------------------------------------------------------------------
VARIABLES
    pc,             \* where the run stands
    handover,       \* the poll id the poll run before a reminder run persisted
    environ,        \* os.environ of the running process
    ciVar,          \* the repository variable LAST_POLL_MESSAGE_ID of the CI platform
    dotenv,         \* the local .env file
    summaryFile,    \* the content of the file GITHUB_STEP_SUMMARY names
    events,         \* what the run has done so far, in order
    exitCode,       \* the exit status, -1 while the process runs
    holidayName,    \* holiday_name of main
    room,           \* room of main
    req,            \* url and payload of the POST being sent
    attempt,        \* attempt of the retry loop being run
    backoff,        \* backoff of the retry loop being run
    received,       \* what each attempt of _get_message_with_retries received so far
    lastResponse,   \* last_response of _get_message_with_retries, then its result
    response,       \* the response send_request_with_retries returned
    pollId,         \* poll_id of send_reminder
    positiveCount   \* positive_count of send_reminder

vars == <<handover, pc, environ, ciVar, dotenv, summaryFile, events, exitCode, holidayName, room,
          req, attempt, backoff, received, lastResponse, response, pollId, positiveCount>>

persisted == <<ciVar, dotenv>>
frame == <<req, attempt, backoff, received, lastResponse, response, pollId, positiveCount>>

UNSET == "UNSET"
POLL_URL == "/messages/poll"
TEXT_URL == "/messages/text"
NoReq == [url |-> "", payload |-> [to |-> "group"]]
NoSummary == "no summary yet"

SUMMARY_FAILED == "WhatsApp message send failed."
SUMMARY_HOLIDAY == "Today is a holiday. No WhatsApp message sent."
SUMMARY_POLL == "WhatsApp poll message sent successfully."
SUMMARY_REMINDER == "WhatsApp reminder message sent successfully."

\* the last element of a non-empty sequence
Last(q) == q[Len(q)]

\* events
EvSummary(line, name) == [kind |-> "summary", line |-> line, name |-> name]
\* a request to the gateway; ok is response.ok (FALSE where the request raised)
EvPost(r, n, ok) ==
    [kind |-> "post", url |-> r.url, payload |-> r.payload, attempt |-> n, ok |-> ok]
EvGet(id, n, ok) == [kind |-> "get", id |-> id, attempt |-> n, ok |-> ok]
\* a rewrite of the local .env file; done is FALSE where reading or writing it raised
EvFile(op, id, done) == [kind |-> "dotenv", op |-> op, id |-> id, done |-> done]
EvSleep(secs) == [kind |-> "sleep", secs |-> secs]
EvLog(level, msg) == [kind |-> "log", level |-> level, msg |-> msg]
EvCi(method, id, status) == [kind |-> "ci", method |-> method, id |-> id, status |-> status]
EvCrash(what) == [kind |-> "crash", what |-> what]
\* log(f"Today is weekday {weekday}. Selected room: {room}")
EvRoom(weekday, r) == [kind |-> "room", weekday |-> weekday, room |-> r]

\* ---------------------------------------------------------------------
\* Start of a run
\* ---------------------------------------------------------------------
InitIds == {IdA, IdBad}
InitLines == {OtherLine} \cup {KeyLine(id) : id \in InitIds}

RECURSIVE SeqsUpTo(_, _)
SeqsUpTo(S, n) ==
    IF n = 0 THEN {<<>>}
    ELSE LET shorter == SeqsUpTo(S, n - 1)
         IN shorter \cup {Append(q, x) : q \in shorter, x \in S}

InitFiles ==
    {NoFile} \cup
    {File(lines) : lines \in {q \in SeqsUpTo(InitLines, MaxEnvLines) :
                                 Cardinality(KeyPositions(q)) <= 1}}

\* GITHUB_REPOSITORY as the CI platform sets it, and a value without "/"
REPO == "owner/repo"
REPO_NO_SLASH == "repo"

\* what the scheduler hands to a run; a run without the gateway credentials reads
\* no other variable, so one such environment stands for all of them; a repository
\* without "/" matters only where the token is present
Environs ==
    { e \in [ WHAPI : BOOLEAN,
              ACTION_TYPE : {UNSET, "poll", "reminder", "bogus"},
              GITHUB_REPOSITORY : {UNSET, REPO, REPO_NO_SLASH},
              GITHUB_TOKEN : BOOLEAN,
              GITHUB_STEP_SUMMARY : BOOLEAN ] :
        /\ ~e.WHAPI => /\ e.ACTION_TYPE = UNSET
                       /\ e.GITHUB_REPOSITORY = UNSET
                       /\ ~e.GITHUB_TOKEN
                       /\ ~e.GITHUB_STEP_SUMMARY
        /\ e.GITHUB_REPOSITORY = REPO_NO_SLASH => e.GITHUB_TOKEN /\ e.GITHUB_STEP_SUMMARY }

\* the CI workflow hands the repository variable to the process
ExportedPollId(env, var) == IF env.GITHUB_REPOSITORY = REPO THEN var ELSE NoneId

\* load_dotenv(override=True): the file wins over the environment
StartEnvironFileFirst(env, var, file) ==
    [ WHAPI |-> env.WHAPI,
      ACTION_TYPE |-> env.ACTION_TYPE,
      GITHUB_REPOSITORY |-> env.GITHUB_REPOSITORY,
      GITHUB_TOKEN |-> env.GITHUB_TOKEN,
      GITHUB_STEP_SUMMARY |-> env.GITHUB_STEP_SUMMARY,
      LAST_POLL_MESSAGE_ID |->
          IF DotenvValue(file) # NoneId THEN DotenvValue(file)
          ELSE ExportedPollId(env, var) ]

\* os.environ once load_dotenv has run: it adds what the environment lacks
StartEnviron(env, var, file) ==
    [ WHAPI |-> env.WHAPI,
      ACTION_TYPE |-> env.ACTION_TYPE,
      GITHUB_REPOSITORY |-> env.GITHUB_REPOSITORY,
      GITHUB_TOKEN |-> env.GITHUB_TOKEN,
      GITHUB_STEP_SUMMARY |-> env.GITHUB_STEP_SUMMARY,
      LAST_POLL_MESSAGE_ID |->
          IF ExportedPollId(env, var) # NoneId THEN ExportedPollId(env, var)
          ELSE DotenvValue(file) ]

\* nothing handed over: the run before sent no poll, or persisted no id
NoHandover == [id |-> NoneId, ci |-> FALSE, file |-> FALSE]

FreshRun(env) ==
    /\ pc' = "load"
    /\ environ' = env
    /\ events' = <<>>
    /\ exitCode' = -1
    /\ holidayName' = NoName
    /\ room' = ""
    /\ req' = NoReq
    /\ attempt' = 0
    /\ backoff' = 0
    /\ received' = <<>>
    /\ lastResponse' = NoResponse
    /\ response' = NoResponse
    /\ pollId' = NoneId
    /\ positiveCount' = JNull

Init ==
    /\ handover = NoHandover
    /\ ciVar \in {NoneId} \cup InitIds
    /\ dotenv \in InitFiles
    /\ summaryFile = NoSummary
    /\ environ \in {StartEnviron(env, ciVar, dotenv) : env \in Environs}
    /\ pc = "load"
    /\ events = <<>>
    /\ exitCode = -1
    /\ holidayName = NoName
    /\ room = ""
    /\ req = NoReq
    /\ attempt = 0
    /\ backoff = 0
    /\ received = <<>>
    /\ lastResponse = NoResponse
    /\ response = NoResponse
    /\ pollId = NoneId
    /\ positiveCount = JNull

\* sys.exit(code), or the interpreter ending on an uncaught exception
Exit(code) ==
    /\ pc' = "done"
    /\ exitCode' = code

\* write_github_summary: the file after the call
write_github_summary(file, line) ==
    IF environ.GITHUB_STEP_SUMMARY THEN line ELSE file

\* ---------------------------------------------------------------------
\* Module load: WHAPI_TOKEN and WHATSAPP_GROUP_ID
\* ---------------------------------------------------------------------
LoadModule ==
    /\ pc = "load"
    /\ IF environ.WHAPI
       THEN /\ pc' = "main"
            /\ UNCHANGED <<events, exitCode>>
       ELSE /\ events' = Append(events, EvLog("error", "missing environment variable"))
            /\ Exit(1)
    /\ UNCHANGED <<environ, persisted, summaryFile, holidayName, room, frame>>
    /\ UNCHANGED handover

\* ---------------------------------------------------------------------
\* main, up to the holiday gate
\* ---------------------------------------------------------------------
HolidayGate(name) == NameTruthy(name)

MainGate ==
    /\ pc = "main"
    /\ \E file \in HolidayFiles :
          LET failed == EvSummary(SUMMARY_FAILED, "")
              first == write_github_summary(summaryFile, SUMMARY_FAILED)
              name == is_today_holiday(file)
          IN IF file.state = "malformed"
             THEN \* json.load raises and nothing catches it
                  /\ events' = events \o <<failed, EvCrash("JSONDecodeError")>>
                  /\ summaryFile' = first
                  /\ holidayName' = NoName
                  /\ Exit(1)
             ELSE IF HolidayGate(name)
             THEN /\ events' = events \o <<failed>>
                                \o <<EvSummary(SUMMARY_HOLIDAY, name[1])>>
                  /\ summaryFile' = write_github_summary(first, SUMMARY_HOLIDAY)
                  /\ holidayName' = name
                  /\ Exit(0)
             ELSE /\ events' = events \o <<failed>>
                  /\ summaryFile' = first
                  /\ holidayName' = name
                  /\ pc' = "dispatch"
                  /\ UNCHANGED exitCode
    /\ UNCHANGED <<environ, persisted, room, frame>>
    /\ UNCHANGED handover

\* ---------------------------------------------------------------------
\* main: room and ACTION_TYPE
\* ---------------------------------------------------------------------
\* if action not in {"poll", "reminder"}
ValidActionDefaulting(action) == action # UNSET

ValidAction(action) == action \in {"poll", "reminder"}

MainDispatch ==
    /\ pc = "dispatch"
    /\ \E weekday \in Weekdays : room' = get_room_for_today(weekday)
    /\ IF environ.ACTION_TYPE = UNSET
       THEN /\ events' = Append(events, EvLog("error", "missing environment variable"))
            /\ Exit(1)
       ELSE IF ~ValidAction(environ.ACTION_TYPE)
       THEN /\ events' = Append(events, EvLog("error", "invalid ACTION_TYPE"))
            /\ Exit(1)
       ELSE /\ pc' = environ.ACTION_TYPE
            /\ UNCHANGED <<events, exitCode>>
    /\ UNCHANGED <<environ, persisted, summaryFile, holidayName, frame>>
    /\ UNCHANGED handover

\* ---------------------------------------------------------------------
\* send_request_with_retries
\* ---------------------------------------------------------------------
\* the loop starts: backoff = INITIAL_BACKOFF, attempt = 1
StartRetries ==
    /\ attempt' = 1
    /\ backoff' = INITIAL_BACKOFF

\* backoff *= 2
NextBackoffConstant(b) == b

NextBackoff(b) == b * 2

\* if attempt < MAX_RETRIES
CanRetryAfterLast(n) == n <= MAX_RETRIES

CanRetry(n) == n < MAX_RETRIES

\* what the gateway answers to a successful poll POST
PollBodies ==
    { JDict([message |-> JDict([id |-> JStr(IdA)])]),
      JDict([message |-> JDict([id |-> JStr(IdB)]), id |-> JStr(IdA)]),
      JDict([message |-> JDict([id |-> JStr(EmptyStr)]), message_id |-> JStr(IdB)]),
      JDict([messageId |-> JStr(IdShort)]),
      JDict([sent |-> JInt(1)]),
      JList(<<JStr(IdA)>>),
      JInvalid }

PostOkResponses(url) ==
    IF url = POLL_URL THEN {Response(TRUE, 200, b) : b \in PollBodies}
    ELSE {Response(TRUE, 200, EmptyDict)}

\* a non-success status, or NoResponse where requests.post raised
PostFailures == {Response(FALSE, 500, JInvalid), NoResponse}

\* where the caller of send_request_with_retries goes on
AfterPostReminderEnds(url) == IF url = POLL_URL THEN "persist" ELSE "done"

AfterPost(url) == IF url = POLL_URL THEN "persist" ELSE "finish"

PostAttempt ==
    /\ pc = "post"
    /\ \E resp \in PostOkResponses(req.url) \cup PostFailures :
          IF resp.ok
          THEN /\ events' = Append(events, EvPost(req, attempt, TRUE))
               /\ response' = resp
               /\ pc' = AfterPost(req.url)
               /\ UNCHANGED <<attempt, backoff, exitCode>>
          ELSE LET warned == <<EvPost(req, attempt, FALSE)>>
               IN IF CanRetry(attempt)
                  THEN /\ events' = events \o warned \o <<EvSleep(backoff)>>
                       /\ backoff' = NextBackoff(backoff)
                       /\ attempt' = attempt + 1
                       /\ UNCHANGED <<pc, exitCode, response>>
                  ELSE /\ events' = events \o warned
                                     \o <<EvLog("error", "all retry attempts failed")>>
                       /\ Exit(1)
                       /\ UNCHANGED <<attempt, backoff, response>>
    /\ UNCHANGED <<environ, persisted, summaryFile, holidayName, room, req,
                   received, lastResponse, pollId, positiveCount>>
    /\ UNCHANGED handover

\* ---------------------------------------------------------------------
\* send_poll
\* ---------------------------------------------------------------------
PollPayload(r) ==
    [to |-> "group", title |-> <<"MINCHA", r, "AUTOMATIC">>,
     options |-> <<"coming", "call me", "not coming">>, count |-> 1]

SendPollStart ==
    /\ pc = "poll"
    /\ req' = [url |-> POLL_URL, payload |-> PollPayload(room)]
    /\ StartRetries
    /\ pc' = "post"
    /\ UNCHANGED <<environ, persisted, summaryFile, events, exitCode, holidayName, room,
                   received, lastResponse, response, pollId, positiveCount>>
    /\ UNCHANGED handover

\* answers of the CI variables API: the status, 0 where the request raised
CiStatuses == {204, NOT_FOUND_CODE, FORBIDDEN_CODE, 500, 0}
CiAccepted(status) == status \in {200, 201, 204}

\* os.environ with LAST_POLL_MESSAGE_ID set (NoneId: removed)
SetEnvPollId(id) == [environ EXCEPT !.LAST_POLL_MESSAGE_ID = id]

\* running under the CI platform, as write_last_poll_id sees it
CiBackend == environ.GITHUB_REPOSITORY # UNSET /\ environ.GITHUB_TOKEN

\* owner, repo = github_repo.split("/", 1) raises ValueError
SplitRaises == environ.GITHUB_REPOSITORY = REPO_NO_SLASH

\* the requests _persist_github_variable sends for answers patch and post
CiEvents(msg_id, patch, post) ==
    <<EvCi("PATCH", msg_id, patch)>>
    \o (IF patch = NOT_FOUND_CODE THEN <<EvCi("POST", msg_id, post)>> ELSE <<>>)
    \o (IF patch = 0 \/ (patch = NOT_FOUND_CODE /\ post = 0)
        THEN <<EvLog("warning", "failed to persist GitHub variable")>>
        ELSE IF patch = FORBIDDEN_CODE \/ (patch = NOT_FOUND_CODE /\ post = FORBIDDEN_CODE)
        THEN <<EvLog("warning", "token lacks actions: write")>>
        ELSE IF CiAccepted(patch) \/ (patch = NOT_FOUND_CODE /\ CiAccepted(post))
        THEN <<>>
        ELSE <<EvLog("warning", "failed to update GitHub variable")>>)

\* _persist_github_variable returned True
persist_github_variable(patch, post) ==
    \/ CiAccepted(patch)
    \/ patch = NOT_FOUND_CODE /\ CiAccepted(post)

\* write_last_poll_id(msg_id)
write_last_poll_id(msg_id) ==
    \E patch \in CiStatuses, post \in CiStatuses, io_ok \in BOOLEAN :
       LET ci == IF CiBackend THEN CiEvents(msg_id, patch, post) ELSE <<>>
       IN IF CiBackend /\ SplitRaises
          THEN \* the outer except: neither backend is tried
               /\ events' = Append(events, EvLog("warning", "failed to persist LAST_POLL_MESSAGE_ID"))
               /\ UNCHANGED <<ciVar, dotenv, environ>>
          ELSE IF CiBackend /\ persist_github_variable(patch, post)
          THEN /\ ciVar' = msg_id
               /\ environ' = SetEnvPollId(msg_id)
               /\ events' = events \o ci
               /\ UNCHANGED dotenv
          ELSE IF io_ok
          THEN /\ dotenv' = WriteDotenv(dotenv, msg_id)
               /\ environ' = SetEnvPollId(msg_id)
               /\ events' = events \o ci \o <<EvFile("write", msg_id, TRUE)>>
               /\ UNCHANGED ciVar
          ELSE /\ events' = events \o ci
                             \o <<EvFile("write", msg_id, FALSE),
                                  EvLog("warning", "failed to persist LAST_POLL_MESSAGE_ID")>>
               /\ UNCHANGED <<ciVar, dotenv, environ>>

\* where send_poll goes once the persistence path has logged ev: every exception
\* is caught, so it returns to main
PersistReraises(ev) ==
    IF Last(ev).kind = "log" /\ Last(ev).level = "warning" THEN "done" ELSE "finish"

PersistReturns(ev) == "finish"

\* send_poll once the POST has returned
PollPersist ==
    /\ pc = "persist"
    /\ IF response.body = JInvalid
       THEN /\ events' = Append(events, EvLog("warning", "failed to persist poll response"))
            /\ UNCHANGED <<ciVar, dotenv, environ>>
       ELSE IF Truthy(PollMsgId(response.body))
       THEN write_last_poll_id(Str(PollMsgId(response.body)))
       ELSE /\ events' = Append(events, EvLog("warning", "poll response missing message id"))
            /\ UNCHANGED <<ciVar, dotenv, environ>>
    /\ pc' = PersistReturns(events')
    /\ UNCHANGED <<summaryFile, exitCode, holidayName, room, frame>>
    /\ UNCHANGED handover

\* ---------------------------------------------------------------------
\* main: the action has returned
\* ---------------------------------------------------------------------
SuccessLineSwapped(action) == IF action = "poll" THEN SUMMARY_REMINDER ELSE SUMMARY_POLL

SuccessLine(action) == IF action = "poll" THEN SUMMARY_POLL ELSE SUMMARY_REMINDER

MainFinish ==
    /\ pc = "finish"
    /\ summaryFile' = write_github_summary(summaryFile, SuccessLine(environ.ACTION_TYPE))
    /\ events' = Append(events, EvSummary(SuccessLine(environ.ACTION_TYPE), ""))
    /\ Exit(0)
    /\ UNCHANGED <<environ, persisted, holidayName, room, frame>>
    /\ UNCHANGED handover

\* ---------------------------------------------------------------------
\* send_reminder
\* ---------------------------------------------------------------------
\* _clear_local_last_poll_id, called once the events so far are before
clear_local_last_poll_id(before, poll_id) ==
    \E io_ok \in BOOLEAN :
       /\ events' = Append(before, EvFile("clear", poll_id, io_ok))
       /\ IF io_ok
          THEN /\ dotenv' = ClearDotenv(dotenv)
               /\ environ' = SetEnvPollId(NoneId)
          ELSE UNCHANGED <<dotenv, environ>>

\* the test send_reminder makes before it scrubs a malformed id
RunsLocally == environ.GITHUB_REPOSITORY = UNSET

\* the id send_reminder goes on with: None where the environment's is malformed
UsableIdUnchecked(id) == id

UsableId(id) == IF is_valid_msg_id(id) THEN id ELSE NoneId

SendReminderStart ==
    /\ pc = "reminder"
    /\ LET poll_id == environ.LAST_POLL_MESSAGE_ID
       IN IF ~StrTruthy(poll_id)
          THEN /\ events' = Append(events, EvLog("warning", "LAST_POLL_MESSAGE_ID not found"))
               /\ pollId' = NoneId
               /\ pc' = "compose"
               /\ UNCHANGED <<environ, dotenv, attempt, backoff>>
          ELSE IF UsableId(poll_id) = NoneId
          THEN /\ pollId' = NoneId
               /\ pc' = "compose"
               /\ LET warned == Append(events, EvLog("warning", "LAST_POLL_MESSAGE_ID looks invalid"))
                  IN IF RunsLocally
                     THEN clear_local_last_poll_id(warned, poll_id)
                     ELSE /\ events' = warned
                          /\ UNCHANGED <<dotenv, environ>>
               /\ UNCHANGED <<attempt, backoff>>
          ELSE /\ pollId' = UsableId(poll_id)
               /\ StartRetries
               /\ pc' = "get"
               /\ UNCHANGED <<events, environ, dotenv>>
    /\ UNCHANGED <<ciVar, summaryFile, exitCode, holidayName, room, req,
                   received, lastResponse, response, positiveCount>>
    /\ UNCHANGED handover

\* ---------------------------------------------------------------------
\* _get_message_with_retries
\* ---------------------------------------------------------------------
ResultsBody(c) ==
    JDict([message |-> JDict([poll |-> JDict([results |->
        JList(<<JDict([count |-> JInt(c)]), JDict([count |-> JInt(0)]),
                JDict([count |-> JInt(1)])>>)])])])

VoteCounts == (MINYAN_THRESHOLD - MaxBelow)..(MINYAN_THRESHOLD + MaxAbove)

GetOkBodies ==
    {ResultsBody(c) : c \in VoteCounts} \cup
    { JDict([poll |-> JDict([options |->
          JList(<<JDict([votes |-> JInt(3)]), JDict([votes |-> JInt(12)])>>)])]),
      JDict([interactive |-> JDict([options |-> JList(<<JDict([count |-> JInt(12)])>>)])]),
      JDict([results |-> JList(<<>>), options |-> JList(<<JDict([votes |-> JInt(4)])>>)]),
      JDict([poll |-> JDict([results |-> JList(<<JDict([count |-> JInt(-1)])>>)])]),
      JDict([poll |-> JDict([results |-> JList(<<JDict([count |-> JStr(<<Seg(1, TRUE)>>)])>>)])]),
      JDict([message |-> JDict([type |-> JStr(<<Seg(4, TRUE)>>)])]),
      JList(<<>>),
      JInvalid }

NotFoundBody ==
    JDict([error |-> JDict([code |-> JInt(NOT_FOUND_CODE),
                            message |-> JText(<<"specified", "message", "not", "found">>)])])

GetResponses ==
    {Response(TRUE, 200, b) : b \in GetOkBodies} \cup
    {Response(FALSE, NOT_FOUND_CODE, NotFoundBody), Response(FALSE, 500, JInvalid)}

\* last_response after an attempt: resp is NoResponse where requests.get raised
LastResponseForgets(last, resp) == resp

LastResponse(last, resp) == IF resp = NoResponse THEN last ELSE resp

GetAttempt ==
    /\ pc = "get"
    /\ \E resp \in GetResponses \cup {NoResponse} :
          /\ lastResponse' = LastResponse(lastResponse, resp)
          /\ received' = Append(received, resp)
          /\ IF resp.ok
             THEN /\ events' = Append(events, EvGet(pollId, attempt, resp.ok))
                  /\ pc' = "compose"
                  /\ UNCHANGED <<attempt, backoff>>
             ELSE LET warned == <<EvGet(pollId, attempt, resp.ok)>>
                  IN IF CanRetry(attempt)
                     THEN /\ events' = events \o warned \o <<EvSleep(backoff)>>
                          /\ backoff' = NextBackoff(backoff)
                          /\ attempt' = attempt + 1
                          /\ UNCHANGED pc
                     ELSE /\ events' = events \o warned
                          /\ pc' = "compose"
                          /\ UNCHANGED <<attempt, backoff>>
    /\ UNCHANGED <<environ, persisted, summaryFile, exitCode, holidayName, room, req,
                   response, pollId, positiveCount>>
    /\ UNCHANGED handover

\* ---------------------------------------------------------------------
\* send_reminder: count, body and payload
\* ---------------------------------------------------------------------
TextPayloadAlwaysQuotes(body, poll_id) == [to |-> "group", body |-> body, quoted |-> poll_id]

TextPayload(body, poll_id) ==
    IF StrTruthy(poll_id) THEN [to |-> "group", body |-> body, quoted |-> poll_id]
    ELSE [to |-> "group", body |-> body]

ReminderCompose ==
    /\ pc = "compose"
    /\ LET count == IF pollId = NoneId THEN JNull ELSE fetch_positive_count(lastResponse)
           body == build_reminder_body(count, room, default_body(room))
       IN /\ positiveCount' = count
          /\ IF body = Raised
             THEN \* positive_count >= MINYAN_THRESHOLD raises and nothing catches it
                  /\ events' = Append(events, EvCrash("TypeError"))
                  /\ Exit(1)
                  /\ UNCHANGED <<req, attempt, backoff>>
             ELSE /\ req' = [url |-> TEXT_URL, payload |-> TextPayload(body, pollId)]
                  /\ StartRetries
                  /\ pc' = "post"
                  /\ UNCHANGED <<events, exitCode>>
    /\ lastResponse' = NoResponse
    /\ received' = <<>>
    /\ UNCHANGED <<environ, persisted, summaryFile, holidayName, room, response, pollId>>
    /\ UNCHANGED handover

\* ---------------------------------------------------------------------
\* The next scheduled run
\* ---------------------------------------------------------------------
\* what the run that has ended leaves to the next: the id of its poll, where the
\* CI platform accepted it or the local .env file was rewritten with it
Handover ==
    LET ci == \E i \in 1..Len(events) :
                  events[i].kind = "ci" /\ CiAccepted(events[i].status)
        file == \E i \in 1..Len(events) :
                    events[i].kind = "dotenv" /\ events[i].op = "write" /\ events[i].done
    IN IF environ.ACTION_TYPE = "poll" /\ response.ok /\ (ci \/ file)
       THEN [id |-> Str(PollMsgId(response.body)), ci |-> ci, file |-> file]
       ELSE NoHandover

NextRun ==
    /\ pc = "done"
    /\ \E env \in Environs : FreshRun(StartEnviron(env, ciVar, dotenv))
    /\ UNCHANGED handover
    /\ summaryFile' = NoSummary
    /\ UNCHANGED persisted

Next ==
    \/ LoadModule
    \/ MainGate
    \/ MainDispatch
    \/ SendPollStart
    \/ SendReminderStart
    \/ GetAttempt
    \/ ReminderCompose
    \/ PostAttempt
    \/ PollPersist
    \/ MainFinish
    \/ NextRun

Spec == Init /\ [][Next]_vars

\* ---------------------------------------------------------------------
\* A poll run and the reminder run scheduled after it
\* ---------------------------------------------------------------------
BridgeInit ==
    /\ Init
    /\ environ.ACTION_TYPE = "poll"

ReminderAfterPoll ==
    /\ pc = "done"
    /\ environ.ACTION_TYPE = "poll"
    /\ handover' = Handover
    /\ \E env \in {e \in Environs : e.ACTION_TYPE = "reminder"} :
          FreshRun(StartEnviron(env, ciVar, dotenv))
    /\ summaryFile' = NoSummary
    /\ UNCHANGED persisted

BridgeNext ==
    \/ LoadModule
    \/ MainGate
    \/ MainDispatch
    \/ SendPollStart
    \/ SendReminderStart
    \/ GetAttempt
    \/ ReminderCompose
    \/ PostAttempt
    \/ PollPersist
    \/ MainFinish
    \/ ReminderAfterPoll

BridgeSpec == BridgeInit /\ [][BridgeNext]_vars

\* ---------------------------------------------------------------------
\* What a run has done, read from its events
\* ---------------------------------------------------------------------
OfKind(kind) == SelectSeq(events, LAMBDA e : e.kind = kind)
Posts == OfKind("post")
Gets == OfKind("get")
Summaries == OfKind("summary")

Positions(kind) == {i \in 1..Len(events) : events[i].kind = kind}

\* the attempts and sleeps of the POST call, from its first attempt on
PostTrace ==
    IF Posts = <<>> THEN <<>>
    ELSE SelectSeq(SubSeq(events, Min(Positions("post")), Len(events)),
                   LAMBDA e : e.kind \in {"post", "sleep"})

\* the attempts and sleeps of the GET call, which ends before the POST starts
GetTrace ==
    SelectSeq(IF Posts = <<>> THEN events
              ELSE SubSeq(events, 1, Min(Positions("post")) - 1),
              LAMBDA e : e.kind \in {"get", "sleep"})

PostSucceeded == Posts # <<>> /\ Last(Posts).ok
PostGaveUp == pc # "post" /\ Posts # <<>> /\ \A i \in 1..Len(Posts) : ~Posts[i].ok

\* ---------------------------------------------------------------------
\* C1: k-1 failed attempts of the POST and then a successful one, 1 <= k <= 3:
\* the call returns the successful response, k requests were sent and none
\* after the success, and k-1 sleeps were taken, the i-th of 2 * 2^(i-1)
\* seconds, between attempt i and attempt i+1.
\* ---------------------------------------------------------------------
C1_RetriesThenSuccess ==
    PostSucceeded =>
        LET k == Len(Posts)
        IN /\ k \in 1..3
           /\ \A i \in 1..(k - 1) : ~Posts[i].ok
           /\ Len(PostTrace) = 2 * k - 1
           /\ \A i \in 1..k : PostTrace[2 * i - 1] = EvPost(req, i, i = k)
           /\ \A i \in 1..(k - 1) : PostTrace[2 * i] = EvSleep(2 * 2^(i - 1))
           /\ response.ok
           /\ response \in PostOkResponses(req.url)
           /\ pc \in {"persist", "finish", "done"}

C1_Witness ==
    /\ pc = "persist"
    /\ PostSucceeded
    /\ Len(Posts) = 3
    /\ PostTrace[4] = EvSleep(4)

\* ---------------------------------------------------------------------
\* C2: every attempt of the POST fails: three attempts are made, sleeps of 2
\* and 4 seconds lie between them and none follows the third, an error is
\* logged and the run exits with status 1; nothing is persisted and no
\* success summary is written.
\* ---------------------------------------------------------------------
C2_AllAttemptsFail ==
    /\ pc = "post" => /\ attempt \in 1..3
                      /\ Len(Posts) = attempt - 1
    /\ PostGaveUp =>
        /\ pc = "done"
        /\ exitCode = 1
        /\ PostTrace = <<EvPost(req, 1, FALSE), EvSleep(2), EvPost(req, 2, FALSE),
                         EvSleep(4), EvPost(req, 3, FALSE)>>
        /\ Last(events) = EvLog("error", "all retry attempts failed")
        /\ events[Len(events) - 1] = EvPost(req, 3, FALSE)
        /\ OfKind("ci") = <<>>
        /\ \A i \in Positions("dotenv") : events[i].op # "write"
        /\ \A i \in 1..Len(Summaries) : Summaries[i].line = SUMMARY_FAILED
        /\ summaryFile \in {SUMMARY_FAILED, NoSummary}
        /\ response = NoResponse

C2_Witness ==
    /\ PostGaveUp
    /\ req.url = POLL_URL
    /\ exitCode = 1

\* ---------------------------------------------------------------------
\* C3: a reminder run with a well-formed poll id whose three GET attempts all
\* fail: _get_message_with_retries returns the last response it received, or
\* none where every attempt raised; the run does not exit; the reminder is
\* POSTed to /messages/text with the default body.
\* ---------------------------------------------------------------------
\* the last response of rs, NoResponse where every attempt raised
LastReceived(rs) ==
    LET got == {i \in 1..Len(rs) : rs[i] # NoResponse}
    IN IF got = {} THEN NoResponse ELSE rs[Max(got)]

AllGetsFailed == Len(Gets) = 3 /\ \A i \in 1..3 : ~Gets[i].ok

C3_GetNotFatal ==
    /\ pc = "get" => /\ attempt \in 1..3
                     /\ Len(Gets) = attempt - 1
    /\ (AllGetsFailed /\ Posts = <<>>) =>
          /\ pc \in {"compose", "post"}
          /\ exitCode = -1
          /\ is_valid_msg_id(pollId)
          /\ pollId = environ.LAST_POLL_MESSAGE_ID
          /\ GetTrace = <<EvGet(pollId, 1, FALSE), EvSleep(2), EvGet(pollId, 2, FALSE),
                          EvSleep(4), EvGet(pollId, 3, FALSE)>>
    /\ (AllGetsFailed /\ pc = "compose") =>
          /\ Len(received) = 3
          /\ lastResponse = LastReceived(received)
          /\ fetch_positive_count(lastResponse) = JNull
    /\ (AllGetsFailed /\ pc # "compose") =>
          /\ pc \in {"post", "finish", "done"}
          /\ positiveCount = JNull
          /\ req.url = TEXT_URL
          /\ req.payload.body = default_body(room)
          /\ pc # "post" => Posts # <<>>
          /\ \A i \in 1..Len(Posts) : Posts[i].url = TEXT_URL /\ Posts[i].payload = req.payload

C3_Witness ==
    /\ AllGetsFailed
    /\ pc = "compose"
    /\ received[1].status = NOT_FOUND_CODE
    /\ received[2] = NoResponse
    /\ received[3] = NoResponse
    /\ lastResponse = received[1]

\* ---------------------------------------------------------------------
\* C4: the first summary written in a run is the "failed" line, written before
\* the holiday check and before any request; a "sent successfully" line is
\* written only after the action returned from a successful POST, and it is
\* the line of ACTION_TYPE; a run that exits with a non-zero status leaves
\* "failed" as the last summary written.
\* ---------------------------------------------------------------------
MainEntered == environ.WHAPI /\ pc \notin {"load", "main"}

IsSuccessSummary(e) == e.kind = "summary" /\ e.line \in {SUMMARY_POLL, SUMMARY_REMINDER}

C4_SummaryOrdering ==
    /\ MainEntered => /\ events # <<>>
                      /\ events[1] = EvSummary(SUMMARY_FAILED, "")
    /\ ~MainEntered /\ pc # "done" => events = <<>>
    /\ ~environ.WHAPI => Summaries = <<>>
    /\ \A i \in 1..Len(events) :
          IsSuccessSummary(events[i]) =>
             /\ i = Len(events)
             /\ pc = "done"
             /\ exitCode = 0
             /\ ValidAction(environ.ACTION_TYPE)
             /\ events[i].line =
                   (IF environ.ACTION_TYPE = "poll" THEN SUMMARY_POLL ELSE SUMMARY_REMINDER)
             /\ PostSucceeded
             /\ Last(Posts).url =
                   (IF environ.ACTION_TYPE = "poll" THEN POLL_URL ELSE TEXT_URL)
    /\ (pc = "done" /\ exitCode # 0) =>
          /\ \A i \in 1..Len(Summaries) : Summaries[i].line = SUMMARY_FAILED
          /\ summaryFile = (IF environ.WHAPI /\ environ.GITHUB_STEP_SUMMARY
                            THEN SUMMARY_FAILED ELSE NoSummary)

C4_Witness ==
    /\ pc = "done"
    /\ exitCode = 0
    /\ Len(events) > 2
    /\ events[1] = EvSummary(SUMMARY_FAILED, "")
    /\ Last(events) = EvSummary(SUMMARY_REMINDER, "")
    /\ summaryFile = SUMMARY_REMINDER

\* ---------------------------------------------------------------------
\* C5: today's date is a key of the year's holiday map: the run exits with
\* status 0, sends no request, persists nothing, and its last summary is the
\* holiday line naming the holiday.
\* ---------------------------------------------------------------------
NoGatewayRequest == Posts = <<>> /\ Gets = <<>>
NothingPersisted == OfKind("ci") = <<>> /\ OfKind("dotenv") = <<>>

\* holidayName is set by the holiday check: it is a name exactly when today is a key
TodayIsAKey == holidayName # NoName

C5_HolidaySkips ==
    TodayIsAKey =>
        /\ pc = "done"
        /\ exitCode = 0
        /\ NoGatewayRequest
        /\ NothingPersisted
        /\ Last(Summaries) = EvSummary(SUMMARY_HOLIDAY, holidayName[1])

\* ---------------------------------------------------------------------
\* C6 as stated: every run whose ACTION_TYPE is unset or is neither "poll" nor
\* "reminder" ends with exit status 1 after an error-level log and sends no
\* request.
\* ---------------------------------------------------------------------
InvalidAction == environ.ACTION_TYPE \notin {"poll", "reminder"}
EndsOnErrorLog == Last(events).kind = "log" /\ Last(events).level = "error"

C6_InvalidActionAnyDay ==
    (InvalidAction /\ pc = "done") =>
        /\ exitCode = 1
        /\ EndsOnErrorLog
        /\ NoGatewayRequest

\* ---------------------------------------------------------------------
\* C6 amended: a run whose ACTION_TYPE is unset or is neither "poll" nor
\* "reminder" never takes either action and sends no request; unless the
\* holiday gate ended it first (a holiday, or a holiday file that cannot be
\* parsed), it ends with exit status 1 after an error-level log.
\* ---------------------------------------------------------------------
EndedByHolidayGate ==
    \/ \E i \in 1..Len(events) : events[i].kind = "crash"
    \/ \E i \in 1..Len(Summaries) : Summaries[i].line = SUMMARY_HOLIDAY

C6_InvalidAction ==
    InvalidAction =>
        /\ pc \in {"load", "main", "dispatch", "done"}
        /\ NoGatewayRequest
        /\ NothingPersisted
        /\ \A i \in 1..Len(events) : ~IsSuccessSummary(events[i])
        /\ (pc = "done" /\ ~EndedByHolidayGate) => (exitCode = 1 /\ EndsOnErrorLog)
        /\ (pc = "done" /\ EndedByHolidayGate /\ HolidayGate(holidayName)) => exitCode = 0

C6_Witness ==
    /\ pc = "done"
    /\ environ.ACTION_TYPE = "bogus"
    /\ exitCode = 1
    /\ events = <<EvSummary(SUMMARY_FAILED, ""), EvLog("error", "invalid ACTION_TYPE")>>

\* ---------------------------------------------------------------------
\* C7: the reminder body for a vote count c: the default text where c is
\* absent; the quorum text, which does not contain the default text, where
\* c >= 10; otherwise the shortfall 10 - c followed by the whole default text.
\* ---------------------------------------------------------------------
IsWithin(a, b) == \E i \in 1..Len(b) : i + Len(a) - 1 <= Len(b) /\ SubSeq(b, i, i + Len(a) - 1) = a

BodyFollowsRule(c, body, r) ==
    IF c = JNull THEN body = default_body(r)
    ELSE IF c.i >= 10 THEN /\ body = minyan_body(r)
                           /\ ~IsWithin(default_body(r), body)
    ELSE body = <<"HASER", ToString(10 - c.i), "-">> \o default_body(r)

FoundMalformedId ==
    \E i \in 1..Len(events) : events[i] = EvLog("warning", "LAST_POLL_MESSAGE_ID looks invalid")

NoFileFailure == \A i \in Positions("dotenv") : events[i].done

C8_MalformedIdScrubbed ==
    (FoundMalformedId /\ NoFileFailure) =>
        /\ Gets = <<>>
        /\ req.url = TEXT_URL => /\ "quoted" \notin DOMAIN req.payload
                                 /\ req.payload.body = default_body(room)
        /\ ~(environ.GITHUB_REPOSITORY # UNSET /\ environ.GITHUB_TOKEN) =>
              /\ KeyPositions(dotenv.lines) = {}
              /\ environ.LAST_POLL_MESSAGE_ID = NoneId

\* ---------------------------------------------------------------------
\* C9: the reminder's payload has a quoted field exactly when
\* LAST_POLL_MESSAGE_ID is set and well-formed, and quoted is then that id,
\* whatever the GET gave; where LAST_POLL_MESSAGE_ID is unset no GET is sent
\* and the payload is the default body without a quoted field.
\* ---------------------------------------------------------------------
EnvIdUsable ==
    StrTruthy(environ.LAST_POLL_MESSAGE_ID) /\ is_valid_msg_id(environ.LAST_POLL_MESSAGE_ID)

C9_QuotedReference ==
    /\ Gets # <<>> => /\ EnvIdUsable
                      /\ \A i \in 1..Len(Gets) : Gets[i].id = environ.LAST_POLL_MESSAGE_ID
    /\ pc = "get" => EnvIdUsable
    /\ (environ.ACTION_TYPE = "reminder" /\ req.url = TEXT_URL) =>
          /\ ("quoted" \in DOMAIN req.payload) <=> EnvIdUsable
          /\ EnvIdUsable => /\ req.payload.quoted = environ.LAST_POLL_MESSAGE_ID
                            /\ Gets # <<>>
          /\ ~EnvIdUsable => Gets = <<>>
          /\ environ.LAST_POLL_MESSAGE_ID = NoneId =>
                req.payload = [to |-> "group", body |-> default_body(room)]
          /\ \A i \in 1..Len(Posts) : Posts[i].payload = req.payload

C9_Witness ==
    /\ Posts # <<>>
    /\ Last(Posts).url = TEXT_URL
    /\ AllGetsFailed
    /\ Last(Posts).payload.quoted = IdA

\* ---------------------------------------------------------------------
\* C10 as stated: a poll run whose POST succeeded with message.id = X ends with
\* X persisted (CI variable or local .env file), with X as LAST_POLL_MESSAGE_ID
\* of the process environment, and with the poll-success line as last summary.
\* ---------------------------------------------------------------------
AnsweredMessageId ==
    /\ environ.ACTION_TYPE = "poll"
    /\ response.ok
    /\ IsDict(response.body)
    /\ IsDict(Get(response.body, "message"))
    /\ Truthy(Get(Get(response.body, "message"), "id"))

MessageIdX == Str(Get(Get(response.body, "message"), "id"))

C10_PollAlwaysPersisted ==
    (pc = "done" /\ AnsweredMessageId) =>
        /\ ciVar = MessageIdX \/ DotenvValue(dotenv) = MessageIdX
        /\ environ.LAST_POLL_MESSAGE_ID = MessageIdX
        /\ Last(Summaries).line = SUMMARY_POLL

\* ---------------------------------------------------------------------
\* C10 amended: a poll run whose POST succeeded with message.id = X ends with
\* the poll-success line as last summary and exit status 0; where a
\* persistence backend took the value (the CI update or create was accepted,
\* or the local .env file was rewritten), X is the value of that backend and
\* LAST_POLL_MESSAGE_ID of the process environment.
\* ---------------------------------------------------------------------
CiTookValue ==
    \E i \in Positions("ci") : CiAccepted(events[i].status)

FileTookValue ==
    \E i \in Positions("dotenv") : events[i].op = "write" /\ events[i].done

C10_PollPersisted ==
    /\ (pc = "done" /\ AnsweredMessageId) =>
          /\ exitCode = 0
          /\ Last(Summaries).line = SUMMARY_POLL
          /\ Last(events) = EvSummary(SUMMARY_POLL, "")
    /\ (pc \in {"finish", "done"} /\ AnsweredMessageId) =>
          /\ CiTookValue => /\ ciVar = MessageIdX
                            /\ environ.LAST_POLL_MESSAGE_ID = MessageIdX
                            /\ ~FileTookValue
          /\ FileTookValue => /\ DotenvValue(dotenv) = MessageIdX
                              /\ Cardinality(KeyPositions(dotenv.lines)) = 1
                              /\ environ.LAST_POLL_MESSAGE_ID = MessageIdX
          /\ \A i \in Positions("ci") \cup Positions("dotenv") : events[i].id = MessageIdX

C10_Witness ==
    /\ pc = "done"
    /\ AnsweredMessageId
    /\ MessageIdX = IdB
    /\ CiTookValue
    /\ ciVar = IdB
    /\ Last(events) = EvSummary(SUMMARY_POLL, "")

\* ---------------------------------------------------------------------
\* C11: once the poll POST has succeeded nothing on the persistence path aborts
\* the run: it goes on to the poll-success summary and ends with exit status 0,
\* whether the response had no id or no JSON, the CI requests were refused or
\* raised, or the local file could not be written.
\* ---------------------------------------------------------------------
PollPostSucceeded == environ.ACTION_TYPE = "poll" /\ response.ok

PersistenceFailed ==
    \/ \E i \in 1..Len(events) :
          /\ events[i].kind = "log"
          /\ events[i].msg \in {"failed to persist poll response",
                                "poll response missing message id",
                                "failed to persist LAST_POLL_MESSAGE_ID"}
    \/ \E i \in Positions("ci") : ~CiAccepted(events[i].status)

C11_PersistenceBestEffort ==
    PollPostSucceeded =>
        /\ pc \in {"persist", "finish", "done"}
        /\ exitCode \in {-1, 0}
        /\ OfKind("crash") = <<>>
        /\ pc = "done" => /\ exitCode = 0
                          /\ Last(events) = EvSummary(SUMMARY_POLL, "")

C11_Witness ==
    /\ pc = "done"
    /\ PollPostSucceeded
    /\ exitCode = 0
    /\ PersistenceFailed
    /\ \E i \in Positions("ci") : events[i].status = FORBIDDEN_CODE
    /\ \E i \in Positions("dotenv") : ~events[i].done
    /\ Last(events) = EvSummary(SUMMARY_POLL, "")

\* ---------------------------------------------------------------------
\* C12: write_last_poll_id with repository and token both present first sends
\* an update (PATCH) of LAST_POLL_MESSAGE_ID, sends a create (POST) exactly when
\* the update answered 404, and on a 403 logs the permission warning without
\* failing; with repository or token absent it sends no CI request and
\* rewrites the local .env file.
\* ---------------------------------------------------------------------
PersistenceCalled ==
    /\ pc \in {"finish", "done"}
    /\ PollPostSucceeded
    /\ response.body # JInvalid
    /\ Truthy(PollMsgId(response.body))

PermissionWarned ==
    \E i \in 1..Len(events) : events[i] = EvLog("warning", "token lacks actions: write")

C12_CiUpsert ==
    PersistenceCalled =>
        LET ci == OfKind("ci")
        IN /\ (environ.GITHUB_REPOSITORY # UNSET /\ environ.GITHUB_TOKEN) =>
                 /\ ci # <<>>
                 /\ ci[1].method = "PATCH"
                 /\ Len(ci) <= 2
                 /\ Len(ci) = 2 <=> ci[1].status = NOT_FOUND_CODE
                 /\ Len(ci) = 2 => ci[2].method = "POST"
                 /\ (\E i \in 1..Len(ci) : ci[i].status = FORBIDDEN_CODE) =>
                       (PermissionWarned /\ exitCode # 1)
           /\ ~(environ.GITHUB_REPOSITORY # UNSET /\ environ.GITHUB_TOKEN) =>
                 /\ ci = <<>>
                 /\ \E i \in Positions("dotenv") : events[i].op = "write"

\* ---------------------------------------------------------------------
\* The two operations on the local .env file, called in any order
\* ---------------------------------------------------------------------
OpsLines == {OtherLine, OtherLine2} \cup {KeyLine(id) : id \in InitIds}

OpsFiles ==
    {NoFile} \cup
    {File(lines) : lines \in {q \in SeqsUpTo(OpsLines, MaxFileLines) :
                                 Cardinality(KeyPositions(q)) <= 1}}

OpsIds == {IdA, IdB}

\* a developer's shell: no CI variables
LocalEnv ==
    [WHAPI |-> TRUE, ACTION_TYPE |-> UNSET, GITHUB_REPOSITORY |-> UNSET,
     GITHUB_TOKEN |-> FALSE, GITHUB_STEP_SUMMARY |-> FALSE]

DotenvInit ==
    /\ handover = NoHandover
    /\ ciVar = NoneId
    /\ dotenv \in OpsFiles
    /\ summaryFile = NoSummary
    /\ environ = StartEnviron(LocalEnv, ciVar, dotenv)
    /\ pc = "ops"
    /\ events = <<>>
    /\ exitCode = -1
    /\ holidayName = NoName
    /\ room = ""
    /\ req = NoReq
    /\ attempt = 0
    /\ backoff = 0
    /\ received = <<>>
    /\ lastResponse = NoResponse
    /\ response = NoResponse
    /\ pollId = NoneId
    /\ positiveCount = JNull

OpWrite ==
    /\ pc = "ops"
    /\ Len(OfKind("dotenv")) < MaxOps
    /\ \E msg_id \in OpsIds : write_last_poll_id(msg_id)
    /\ UNCHANGED <<pc, summaryFile, exitCode, holidayName, room, frame>>
    /\ UNCHANGED handover

OpClear ==
    /\ pc = "ops"
    /\ Len(OfKind("dotenv")) < MaxOps
    /\ clear_local_last_poll_id(events, environ.LAST_POLL_MESSAGE_ID)
    /\ UNCHANGED <<pc, ciVar, summaryFile, exitCode, holidayName, room, frame>>
    /\ UNCHANGED handover

DotenvNext ==
    \/ OpWrite
    \/ OpClear

DotenvSpec == DotenvInit /\ [][DotenvNext]_vars

\* ---------------------------------------------------------------------
\* C13: from a file with at most one LAST_POLL_MESSAGE_ID= line, any sequence
\* of write_last_poll_id and _clear_local_last_poll_id leaves at most one such
\* line: the id written last where no clear followed, none after a clear; the
\* other lines keep their content and order; writing an id a second time
\* changes nothing.
\* ---------------------------------------------------------------------
OtherLines(lines) == SelectSeq(lines, LAMBDA line : ~IsKeyLine(line))

\* the operations that rewrote the file
Rewrites == SelectSeq(OfKind("dotenv"), LAMBDA e : e.done)

KeyLineFollowsLastRewrite ==
    /\ Cardinality(KeyPositions(dotenv.lines)) <= 1
    /\ Rewrites # <<>> =>
          IF Last(Rewrites).op = "write"
          THEN /\ dotenv.exists
               /\ Cardinality(KeyPositions(dotenv.lines)) = 1
               /\ DotenvValue(dotenv) = Last(Rewrites).id
          ELSE KeyPositions(dotenv.lines) = {}

WriteTwiceIsWriteOnce ==
    \A msg_id \in OpsIds :
       WriteDotenv(WriteDotenv(dotenv, msg_id), msg_id) = WriteDotenv(dotenv, msg_id)

OtherLinesKept == OtherLines(dotenv'.lines) = OtherLines(dotenv.lines)

C13_DotenvInvariant ==
    /\ [](KeyLineFollowsLastRewrite /\ WriteTwiceIsWriteOnce)
    /\ [][OtherLinesKept]_vars

C13_Witness ==
    /\ pc = "ops"
    /\ Len(Rewrites) = 3
    /\ Rewrites[1].op = "write"
    /\ Rewrites[2].op = "clear"
    /\ Rewrites[3] = EvFile("write", IdA, TRUE)
    /\ dotenv = File(<<OtherLine, OtherLine2, KeyLine(IdA)>>)

\* ---------------------------------------------------------------------
\* How a run ended
\* ---------------------------------------------------------------------
HolidaySkipped ==
    /\ Last(events).kind = "summary"
    /\ Last(events).line = SUMMARY_HOLIDAY
    /\ exitCode = 0

\* exit status 1 after an error-level log, before either action: a required
\* variable is missing, or ACTION_TYPE is neither "poll" nor "reminder"
RefusedAction ==
    /\ Last(events) \in {EvLog("error", "missing environment variable"),
                         EvLog("error", "invalid ACTION_TYPE")}
    /\ exitCode = 1

\* the poll or the reminder path ran: it ends by its POST, or by an exception
\* of the reminder composer
Dispatched == Posts # <<>> \/ Last(events) = EvCrash("TypeError")

\* json.load of the holiday file raised
HolidayFileUnreadable == Last(events) = EvCrash("JSONDecodeError")

MessagePostSucceeded == Posts # <<>> /\ Last(Posts).ok

SaysSentSuccessfully == Summaries # <<>> /\ IsSuccessSummary(Last(Summaries))

CountTrue(bs) == Len(SelectSeq(bs, LAMBDA b : b))

\* ---------------------------------------------------------------------
\* C14 as stated: a run that has ended is in exactly one of holiday-skip (exit
\* 0, skip summary), invalid-action (exit 1) and dispatched, and a dispatched
\* run's last summary says "sent successfully" exactly when its message POST
\* succeeded.
\* ---------------------------------------------------------------------
C14_ThreeOutcomes ==
    pc = "done" =>
        /\ CountTrue(<<HolidaySkipped, RefusedAction, Dispatched>>) = 1
        /\ Dispatched => (SaysSentSuccessfully <=> MessagePostSucceeded)

\* ---------------------------------------------------------------------
\* C14 amended: every run terminates whatever the gateway answers (a step is
\* always possible until the run has ended, and each step lowers a measure
\* that is 0 exactly at the end), in exactly one of four outcomes: holiday-skip (exit 0, skip summary), refused (exit 1
\* after an error-level log: a required variable is missing or ACTION_TYPE is
\* invalid), holiday file unreadable (uncaught exception of json.load,
\* non-zero exit, failed summary) and dispatched; a dispatched run's last
\* summary says "sent successfully" exactly when its message POST succeeded.
\* ---------------------------------------------------------------------
FourOutcomes ==
    pc = "done" =>
        /\ CountTrue(<<HolidaySkipped, RefusedAction, HolidayFileUnreadable, Dispatched>>) = 1
        /\ HolidayFileUnreadable => (exitCode = 1 /\ ~SaysSentSuccessfully)
        /\ Dispatched => (SaysSentSuccessfully <=> MessagePostSucceeded)
        /\ SaysSentSuccessfully => exitCode = 0

\* the positions of a run, last first
Stages ==
    <<"done", "finish", "persist", "post", "compose", "get", "reminder", "poll",
      "dispatch", "main", "load">>

Stage(p) == CHOOSE i \in 1..Len(Stages) : Stages[i] = p

\* steps the run can still take, at most
StepsLeft ==
    (Stage(pc) - 1) * (MAX_RETRIES + 1)
    + (IF pc \in {"get", "post"} THEN MAX_RETRIES - attempt ELSE 0)

\* the steps of a run other than ReminderCompose
StepElsewhere ==
    \/ LoadModule
    \/ MainGate
    \/ MainDispatch
    \/ SendPollStart
    \/ SendReminderStart
    \/ GetAttempt
    \/ PostAttempt
    \/ PollPersist
    \/ MainFinish

\* ReminderCompose asks for its position only; the count it reads gives it a
\* body to send or the exception that ends the run
ComposeCanStep ==
    LET count == IF pollId = NoneId THEN JNull ELSE fetch_positive_count(lastResponse)
        body == build_reminder_body(count, room, default_body(room))
    IN body = Raised \/ Len(body) >= Len(default_body(room))

CanStep ==
    /\ pc \in {Stages[i] : i \in 1..Len(Stages)}
    /\ StepsLeft >= 0
    /\ StepsLeft = 0 <=> pc = "done"
    /\ pc = "compose" => ComposeCanStep
    /\ pc \notin {"compose", "done"} => ENABLED StepElsewhere

C14_RunsTerminate ==
    /\ [](FourOutcomes /\ CanStep)
    /\ [][pc # "done" => StepsLeft' < StepsLeft]_vars

C14_Witness ==
    /\ pc = "done"
    /\ Dispatched
    /\ environ.ACTION_TYPE = "reminder"
    /\ Len(Gets) = MAX_RETRIES
    /\ Len(Posts) = MAX_RETRIES
    /\ MessagePostSucceeded
    /\ SaysSentSuccessfully

\* ---------------------------------------------------------------------
\* get_room_for_today, called for one day after another
\* ---------------------------------------------------------------------
RoomInit ==
    /\ handover = NoHandover
    /\ ciVar = NoneId
    /\ dotenv = NoFile
    /\ summaryFile = NoSummary
    /\ environ = StartEnviron(LocalEnv, ciVar, dotenv)
    /\ pc = "room"
    /\ events = <<>>
    /\ exitCode = -1
    /\ holidayName = NoName
    /\ room = ""
    /\ req = NoReq
    /\ attempt = 0
    /\ backoff = 0
    /\ received = <<>>
    /\ lastResponse = NoResponse
    /\ response = NoResponse
    /\ pollId = NoneId
    /\ positiveCount = JNull

RoomForDay ==
    /\ pc = "room"
    /\ Len(events) < MaxDays
    /\ \E weekday \in Weekdays :
          /\ room' = get_room_for_today(weekday)
          /\ events' = Append(events, EvRoom(weekday, room'))
    /\ UNCHANGED <<pc, environ, persisted, summaryFile, exitCode, holidayName, frame>>
    /\ UNCHANGED handover

RoomSpec == RoomInit /\ [][RoomForDay]_vars

\* ---------------------------------------------------------------------
\* C15: for every weekday 0..6 get_room_for_today returns a label of the rule
\* table, the same label whenever the weekday is the same, and the
\* north-shelter label 06.709 for Sunday (6), Monday (0) and Thursday (3).
\* ---------------------------------------------------------------------
RuleTable == {ROOM_TUESDAY, ROOM_NORTH_SHELTER}

C15_RoomSelection ==
    /\ \A i \in 1..Len(events) :
          /\ events[i].weekday \in Weekdays
          /\ events[i].room \in RuleTable
          /\ events[i].weekday \in {6, 0, 3} => events[i].room = ROOM_NORTH_SHELTER
    /\ \A i, j \in 1..Len(events) :
          events[i].weekday = events[j].weekday => events[i].room = events[j].room
    /\ events # <<>> => room = Last(events).room

C15_Witness ==
    /\ pc = "room"
    /\ Len(events) = 3
    /\ {events[i].weekday : i \in 1..2} = {6, 0}
    /\ events[3] = EvRoom(3, ROOM_NORTH_SHELTER)
    /\ room = ROOM_NORTH_SHELTER

\* ---------------------------------------------------------------------
\* C16 as stated: a reminder run that follows a poll run whose POST succeeded
\* with id X and whose persistence step succeeded (in the backend the reminder
\* run reads) sends its GET for /messages/X and posts with quoted = X.
\* ---------------------------------------------------------------------
\* the reminder run is given the CI variable
ReadsCiVariable == environ.GITHUB_REPOSITORY = REPO

\* the id persisted by the poll run is the one handed to this reminder run
HandedOver ==
    /\ environ.ACTION_TYPE = "reminder"
    /\ handover # NoHandover
    /\ \/ handover.ci /\ ReadsCiVariable
       \/ handover.file /\ (~ReadsCiVariable \/ ciVar = NoneId)

ReminderUsed(id) ==
    /\ Gets # <<>>
    /\ \A i \in 1..Len(Gets) : Gets[i].id = id
    /\ "quoted" \in DOMAIN req.payload
    /\ req.payload.quoted = id

C16_BridgeAnyId ==
    (HandedOver /\ req.url = TEXT_URL) => ReminderUsed(handover.id)

\* ---------------------------------------------------------------------
\* C16 amended: as above where X matches the message-id pattern; an X that
\* does not match is neither fetched nor quoted.
\* ---------------------------------------------------------------------
C16_Bridge ==
    /\ HandedOver => (pc \in {"load", "main", "dispatch", "reminder"}
                        => environ.LAST_POLL_MESSAGE_ID = handover.id)
    /\ (HandedOver /\ pc = "get") => pollId = handover.id
    /\ (HandedOver /\ req.url = TEXT_URL) =>
          IF is_valid_msg_id(handover.id)
          THEN ReminderUsed(handover.id)
          ELSE Gets = <<>> /\ "quoted" \notin DOMAIN req.payload

C16_Witness ==
    /\ HandedOver
    /\ handover = [id |-> IdB, ci |-> FALSE, file |-> TRUE]
    /\ pc = "done"
    /\ exitCode = 0
    /\ ReminderUsed(IdB)
    /\ Last(Posts).payload.quoted = IdB

\* ---------------------------------------------------------------------
\* C17: over any sequence of runs the persisted poll id (CI variable and local
\* file) changes in two ways only: a poll run whose POST succeeded stores an id
\* the gateway returned, or a reminder run that found the id malformed clears
\* it; poll runs whose POST failed on every attempt or whose response carries
\* no id, holiday-skipped and invalid-action runs, and reminder runs with a
\* well-formed or absent id leave both untouched.
\* ---------------------------------------------------------------------
\* the ids a poll response carries, in any of the fields send_poll reads
ReturnedIds(body) ==
    IF ~IsDict(body) THEN {}
    ELSE LET fields == {Get(body, "id"), Get(body, "messageId"), Get(body, "message_id")}
                       \cup (IF IsDict(Get(body, "message"))
                             THEN {Get(Get(body, "message"), "id")} ELSE {})
         IN {Str(v) : v \in {w \in fields : Truthy(w)}}

PollStoresReturnedId ==
    /\ pc = "persist"
    /\ environ.ACTION_TYPE = "poll"
    /\ response.ok
    /\ \E X \in ReturnedIds(response.body) :
          \/ /\ ciVar' = X
             /\ dotenv' = dotenv
          \/ /\ ciVar' = ciVar
             /\ dotenv'.exists
             /\ Cardinality(KeyPositions(dotenv'.lines)) = 1
             /\ DotenvValue(dotenv') = X
             /\ OtherLines(dotenv'.lines) = OtherLines(dotenv.lines)

ReminderClearsMalformedId ==
    /\ pc = "reminder"
    /\ environ.ACTION_TYPE = "reminder"
    /\ StrTruthy(environ.LAST_POLL_MESSAGE_ID)
    /\ ~is_valid_msg_id(environ.LAST_POLL_MESSAGE_ID)
    /\ DotenvValue(dotenv) = environ.LAST_POLL_MESSAGE_ID
    /\ ciVar' = ciVar
    /\ KeyPositions(dotenv'.lines) = {}
    /\ OtherLines(dotenv'.lines) = OtherLines(dotenv.lines)

\* the runs the claim lists as leaving the id alone
KeepsPersistedId ==
    \/ environ.ACTION_TYPE \notin {"poll", "reminder"}
    \/ environ.ACTION_TYPE = "poll" /\ (~response.ok \/ ReturnedIds(response.body) = {})
    \/ environ.ACTION_TYPE = "reminder" /\ ~FoundMalformedId
    \/ HolidaySkipped

C17_PollIdFrame ==
    /\ [](KeepsPersistedId => NothingPersisted)
    /\ [][persisted' # persisted => (PollStoresReturnedId \/ ReminderClearsMalformedId)]_vars

C17_Witness ==
    /\ pc = "done"
    /\ environ.ACTION_TYPE = "reminder"
    /\ ciVar = IdB
    /\ environ.LAST_POLL_MESSAGE_ID = IdB
    /\ dotenv = File(<<OtherLine>>)
    /\ Gets # <<>>
    /\ NothingPersisted
    /\ SaysSentSuccessfully

\* ---------------------------------------------------------------------
\* C18: whatever the gateway answers to the GET, the tally handed to the
\* composer is absent or a non-negative integer (the vote count of the first
\* poll option), composing never fails on it, and a shortfall shown in the
\* reminder is between 1 and 10.
\* ---------------------------------------------------------------------
TallyIsCount ==
    \/ positiveCount = JNull
    \/ positiveCount.t = "int" /\ positiveCount.i >= 0

Shortfalls == {ToString(k) : k \in 1..MINYAN_THRESHOLD}

C18_VoteTally ==
    /\ TallyIsCount
    /\ \A i \in Positions("crash") : events[i] # EvCrash("TypeError")
    /\ (req.url = TEXT_URL /\ req.payload.body[1] = "HASER") =>
          req.payload.body[2] \in Shortfalls

====
